---- MODULE Spec2Model ----
(***************************************************************************)
(* Model of the twin-stick shooter: joystick.rs (Vec2, Joystick),          *)
(* player.rs (Player) and game.rs (GameState::new, update, shoot,          *)
(* spawn_enemy, handle_input).                                             *)
(*                                                                         *)
(* Number representation (the program computes in f32):                    *)
(*   - positions and lengths are whole pixels, velocities pixels/second;   *)
(*   - time (dt, timers, lifetimes) is in milliseconds: 3.0 s = 3000;      *)
(*   - values in the unit range (normalised vectors, get_input, cos/sin    *)
(*     of a rotation, intro_alpha) are thousandths: 1.0 = 1000;            *)
(*   - a product or quotient that is not a whole number is rounded toward  *)
(*     zero (Quot). The inputs the specifications draw are chosen so that  *)
(*     the joystick and combat arithmetic is exact.                        *)
(* A rotation is kept as its direction (cos, sin) in thousandths, which is *)
(* all the program uses of it (shoot, line 343-350).                       *)
(* The draw-only state (particles, obstacles, sizes of trail segments) is  *)
(* left out.                                                               *)
(***************************************************************************)
EXTENDS Integers, Sequences, FiniteSets, TLC

(***************************************************************************)
(* Arithmetic helpers                                                      *)
(***************************************************************************)
Abs(a) == IF a < 0 THEN -a ELSE a

\* division rounded toward zero
Quot(a, b) == IF a >= 0 THEN a \div b ELSE -((-a) \div b)

RECURSIVE IsqrtFrom(_, _, _)
IsqrtFrom(s, r, bit) ==
    IF bit = 0 THEN r
    ELSE IF (r + bit) * (r + bit) <= s
         THEN IsqrtFrom(s, r + bit, bit \div 2)
         ELSE IsqrtFrom(s, r, bit \div 2)

\* f32::sqrt on the non-negative integers, rounded down
Isqrt(s) == IsqrtFrom(s, 0, 16384)

(***************************************************************************)
(* joystick.rs: Vec2                                                       *)
(***************************************************************************)
Vec(x, y) == [x |-> x, y |-> y]

ZERO == Vec(0, 0)

VAdd(a, b) == Vec(a.x + b.x, a.y + b.y)

VSub(a, b) == Vec(a.x - b.x, a.y - b.y)

\* v * (num / den)
VScale(v, num, den) == Vec(Quot(v.x * num, den), Quot(v.y * num, den))

LenSq(v) == v.x * v.x + v.y * v.y

length(v) == Isqrt(LenSq(v))

\* unit vector in thousandths; the zero vector stays zero
normalize(v) ==
    LET len == length(v)
    IN  IF len > 0 THEN Vec(Quot(v.x * 1000, len), Quot(v.y * 1000, len))
        ELSE ZERO

(***************************************************************************)
(* joystick.rs: Joystick                                                   *)
(***************************************************************************)
Radius == 80

Joystick_new(radius) ==
    [center |-> ZERO, current |-> ZERO, active |-> FALSE, radius |-> radius]

on_touch_start(j, pos) ==
    [j EXCEPT !.center = pos, !.current = pos, !.active = TRUE]

\* the clamp of on_touch_move: delta limited to the circle of the radius
ClampNone(delta, radius) == delta

ClampBox(delta, radius) ==
    Vec(IF Abs(delta.x) > radius THEN radius * (delta.x \div Abs(delta.x)) ELSE delta.x,
        IF Abs(delta.y) > radius THEN radius * (delta.y \div Abs(delta.y)) ELSE delta.y)

ClampDelta(delta, radius) ==
    IF LenSq(delta) > radius * radius
    THEN VScale(normalize(delta), radius, 1000)
    ELSE delta

on_touch_move(j, pos) ==
    IF ~j.active THEN j
    ELSE [j EXCEPT !.current = VAdd(j.center, ClampDelta(VSub(pos, j.center), j.radius))]

on_touch_end_keep(j) == [j EXCEPT !.active = FALSE]

on_touch_end(j) == [j EXCEPT !.active = FALSE, !.current = j.center]

\* the input vector in thousandths
get_input(j) ==
    IF ~j.active THEN ZERO
    ELSE Vec(Quot((j.current.x - j.center.x) * 1000, j.radius),
             Quot((j.current.y - j.center.y) * 1000, j.radius))

(***************************************************************************)
(* player.rs: Player                                                       *)
(***************************************************************************)
Player_new(start_pos) ==
    [position |-> start_pos, velocity |-> ZERO, rotation |-> Vec(1000, 0)]

\* Player::update; movement and aim are in thousandths, dt in milliseconds.
\* The rotation is held as the unit vector (in thousandths) of its angle;
\* atan2(0, 0) is the angle 0.
Player_update_always_aims(p, movement, aim, dt) ==
    LET thrust == Vec(Quot(movement.x * 4 * dt, 10000), Quot(movement.y * 4 * dt, 10000))
        v1     == VAdd(p.velocity, thrust)
        v2     == VScale(v1, 98, 100)
    IN  [position |-> VAdd(p.position, VScale(v2, dt, 1000)),
         velocity |-> v2,
         rotation |-> IF aim.x # 0 \/ aim.y # 0 THEN normalize(aim) ELSE Vec(1000, 0)]

Player_update(p, movement, aim, dt) ==
    LET thrust == Vec(Quot(movement.x * 4 * dt, 10000), Quot(movement.y * 4 * dt, 10000))
        v1     == VAdd(p.velocity, thrust)
        v2     == VScale(v1, 98, 100)
    IN  [position |-> VAdd(p.position, VScale(v2, dt, 1000)),
         velocity |-> v2,
         rotation |-> IF aim.x # 0 \/ aim.y # 0 THEN normalize(aim) ELSE p.rotation]

(***************************************************************************)
(* main.rs: window_conf                                                    *)
(***************************************************************************)
ScreenWidth == 1280

ScreenHeight == 720

(***************************************************************************)
(* game.rs: GameState                                                      *)
(***************************************************************************)
VARIABLES
    left_joystick, right_joystick, left_touch_id, right_touch_id,
    player, trail, bullets, enemies, explosions,
    shoot_cooldown, enemy_spawn_timer,
    health, score, time, intro_alpha, game_started, safe_time, game_over,
    panicked,       \* the process aborted on a panic (Vec::remove out of range)
    spawned,        \* history: how many trail segments, bullets, enemies were
                    \* created and how many fingers landed
    trail_uncapped, \* history: the trail as the life filter alone would leave it
    obs             \* history: what the last call observed on its way

vars == <<left_joystick, right_joystick, left_touch_id, right_touch_id,
          player, trail, bullets, enemies, explosions,
          shoot_cooldown, enemy_spawn_timer,
          health, score, time, intro_alpha, game_started, safe_time, game_over,
          panicked, spawned, trail_uncapped, obs>>

\* Option<u64>: None is the empty set, Some(id) the singleton
None == {}

Some(id) == {id}

ObsNone ==
    [op |-> "new", dt |-> 0, arg |-> ZERO, prev_op |-> "new",
     seen_safe |-> 0, pre_health |-> 0, pre_score |-> 0, prev_hit_time |-> -1,
     pass_enemies |-> <<>>, pass_bullets |-> <<>>, to_remove |-> <<>>,
     pass_explosions |-> <<>>, after_pass |-> <<>>,
     hit_index |-> -1, hit_explosions |-> <<>>,
     hit_time |-> -1, shots |-> 0, spawns |-> 0, fired |-> <<>>,
     unwrapped |-> ZERO, scanned |-> <<>>, pre_cooldown |-> 0,
     prev_shot_time |-> -1, shot_time |-> -1, pre_spawn_timer |-> 0,
     born_enemies |-> <<>>, pre_started |-> FALSE, pre_alpha |-> 0,
     touches |-> <<>>, input_trace |-> <<>>, aged |-> <<>>,
     aim |-> ZERO, pre_rotation |-> Vec(1000, 0), faced |-> Vec(1000, 0),
     hits |-> <<>>]

\* GameState::new
Init ==
    /\ left_joystick = Joystick_new(Radius)
    /\ right_joystick = Joystick_new(Radius)
    /\ left_touch_id = None
    /\ right_touch_id = None
    /\ player = Player_new(Vec(ScreenWidth \div 2, ScreenHeight \div 2))
    /\ trail = <<>>
    /\ bullets = <<>>
    /\ enemies = <<>>
    /\ explosions = <<>>
    /\ shoot_cooldown = 0
    /\ enemy_spawn_timer = 0
    /\ health = 3
    /\ score = 0
    /\ time = 0
    /\ intro_alpha = 1000
    /\ game_started = FALSE
    /\ safe_time = 3000
    /\ game_over = FALSE
    /\ panicked = FALSE
    /\ spawned = [trail |-> 0, bullets |-> 0, enemies |-> 0, touches |-> 0]
    /\ trail_uncapped = <<>>
    /\ obs = ObsNone

(***************************************************************************)
(* game.rs: handle_input                                                   *)
(* A touch is [id, phase, pos]; the mouse is [pos, pressed, down,          *)
(* released]. The joysticks and bindings travel as one record              *)
(* [lj, rj, lid, rid].                                                     *)
(***************************************************************************)
left_side_x == ScreenWidth \div 2

TouchStepAnyMove(s, t) ==
    CASE t.phase = "Started" ->
            IF t.pos.x < left_side_x /\ s.lid = None
            THEN [s EXCEPT !.lj = on_touch_start(@, t.pos), !.lid = Some(t.id)]
            ELSE IF t.pos.x >= left_side_x /\ s.rid = None
            THEN [s EXCEPT !.rj = on_touch_start(@, t.pos), !.rid = Some(t.id)]
            ELSE s
      [] t.phase = "Moved" ->
            IF s.lid # None
            THEN [s EXCEPT !.lj = on_touch_move(@, t.pos)]
            ELSE IF Some(t.id) = s.rid
            THEN [s EXCEPT !.rj = on_touch_move(@, t.pos)]
            ELSE s
      [] t.phase \in {"Ended", "Cancelled"} ->
            IF Some(t.id) = s.lid
            THEN [s EXCEPT !.lj = on_touch_end(@), !.lid = None]
            ELSE IF Some(t.id) = s.rid
            THEN [s EXCEPT !.rj = on_touch_end(@), !.rid = None]
            ELSE s
      [] OTHER -> s

TouchStepRebind(s, t) ==
    CASE t.phase = "Started" ->
            IF t.pos.x < left_side_x
            THEN [s EXCEPT !.lj = on_touch_start(@, t.pos), !.lid = Some(t.id)]
            ELSE IF t.pos.x >= left_side_x /\ s.rid = None
            THEN [s EXCEPT !.rj = on_touch_start(@, t.pos), !.rid = Some(t.id)]
            ELSE s
      [] t.phase = "Moved" ->
            IF Some(t.id) = s.lid
            THEN [s EXCEPT !.lj = on_touch_move(@, t.pos)]
            ELSE IF Some(t.id) = s.rid
            THEN [s EXCEPT !.rj = on_touch_move(@, t.pos)]
            ELSE s
      [] t.phase \in {"Ended", "Cancelled"} ->
            IF Some(t.id) = s.lid
            THEN [s EXCEPT !.lj = on_touch_end(@), !.lid = None]
            ELSE IF Some(t.id) = s.rid
            THEN [s EXCEPT !.rj = on_touch_end(@), !.rid = None]
            ELSE s
      [] OTHER -> s

TouchStep(s, t) ==
    CASE t.phase = "Started" ->
            IF t.pos.x < left_side_x /\ s.lid = None
            THEN [s EXCEPT !.lj = on_touch_start(@, t.pos), !.lid = Some(t.id)]
            ELSE IF t.pos.x >= left_side_x /\ s.rid = None
            THEN [s EXCEPT !.rj = on_touch_start(@, t.pos), !.rid = Some(t.id)]
            ELSE s
      [] t.phase = "Moved" ->
            IF Some(t.id) = s.lid
            THEN [s EXCEPT !.lj = on_touch_move(@, t.pos)]
            ELSE IF Some(t.id) = s.rid
            THEN [s EXCEPT !.rj = on_touch_move(@, t.pos)]
            ELSE s
      [] t.phase \in {"Ended", "Cancelled"} ->
            IF Some(t.id) = s.lid
            THEN [s EXCEPT !.lj = on_touch_end(@), !.lid = None]
            ELSE IF Some(t.id) = s.rid
            THEN [s EXCEPT !.rj = on_touch_end(@), !.rid = None]
            ELSE s
      [] OTHER -> s

RECURSIVE TouchLoop(_, _, _)
TouchLoop(s, touches, k) ==
    IF k > Len(touches) THEN s
    ELSE TouchLoop(TouchStep(s, touches[k]), touches, k + 1)

MouseStep(s, m) ==
    IF m.pressed
    THEN IF m.pos.x < left_side_x
         THEN [s EXCEPT !.lj = on_touch_start(@, m.pos)]
         ELSE [s EXCEPT !.rj = on_touch_start(@, m.pos)]
    ELSE IF m.down
    THEN IF m.pos.x < left_side_x /\ s.lj.active
         THEN [s EXCEPT !.lj = on_touch_move(@, m.pos)]
         ELSE IF m.pos.x >= left_side_x /\ s.rj.active
         THEN [s EXCEPT !.rj = on_touch_move(@, m.pos)]
         ELSE s
    ELSE IF m.released
    THEN [s EXCEPT !.lj = on_touch_end(@), !.rj = on_touch_end(@)]
    ELSE s

handle_input(s, touches, mouse) ==
    LET s1 == TouchLoop(s, touches, 1)
    IN  IF touches = <<>> THEN MouseStep(s1, mouse) ELSE s1

\* history: the state before the touch loop and after each of its rounds
InputTrace(s, touches) ==
    [k \in 1..(Len(touches) + 1) |-> TouchLoop(s, SubSeq(touches, 1, k - 1), 1)]

(***************************************************************************)
(* game.rs: the phases of update, in the order of the code                 *)
(***************************************************************************)
\* lines 150-157
IntroFade(alpha, started, dt) ==
    IF alpha > 0
    THEN LET a == alpha - Quot(dt * 5, 10)
         IN  IF a < 0 THEN [alpha |-> 0, started |-> TRUE]
             ELSE [alpha |-> a, started |-> started]
    ELSE [alpha |-> alpha, started |-> started]

\* lines 159-162
SafeCountdown(safe, dt) == IF safe > 0 THEN safe - dt ELSE safe

\* line 175: the condition under which update shoots
FireIgnoringCooldown(active, cooldown) == active

Fire(active, cooldown) == active /\ cooldown <= 0

\* lines 337-358; id and born are history fields
shoot_long_life(bs, p, id, now) ==
    Append(bs, [pos      |-> VAdd(p.position, VScale(p.rotation, 45, 1000)),
                velocity |-> VScale(p.rotation, 600, 1000),
                life     |-> 3000,
                id |-> id, born |-> now])

shoot(bs, p, id, now) ==
    Append(bs, [pos      |-> VAdd(p.position, VScale(p.rotation, 45, 1000)),
                velocity |-> VScale(p.rotation, 600, 1000),
                life     |-> 2000,
                id |-> id, born |-> now])

\* lines 181-188
TrailPush(tr, movement, pos, id) ==
    IF Abs(movement.x) > 100 \/ Abs(movement.y) > 100
    THEN Append(tr, [pos |-> pos, life |-> 1000, id |-> id])
    ELSE tr

TrailAlive(seg) == seg.life > 0

\* lines 191-195
TrailAge(tr, dt) ==
    SelectSeq([k \in DOMAIN tr |-> [tr[k] EXCEPT !.life = @ - dt * 2]], TrailAlive)

TrailCapLen == 20

\* lines 198-200
TrailCapOldest(tr) ==
    IF Len(tr) > TrailCapLen THEN SubSeq(tr, 1, TrailCapLen) ELSE tr

TrailCap(tr) ==
    IF Len(tr) > TrailCapLen
    THEN SubSeq(tr, Len(tr) - TrailCapLen + 1, Len(tr))
    ELSE tr

\* lines 203-208
WrapPlayerAround(pos) ==
    LET x1 == IF pos.x < 0 THEN pos.x + ScreenWidth ELSE pos.x
        x2 == IF x1 > ScreenWidth THEN x1 - ScreenWidth ELSE x1
        y1 == IF pos.y < 0 THEN pos.y + ScreenHeight ELSE pos.y
        y2 == IF y1 > ScreenHeight THEN y1 - ScreenHeight ELSE y1
    IN  Vec(x2, y2)

WrapPlayer(pos) ==
    LET x1 == IF pos.x < 0 THEN ScreenWidth ELSE pos.x
        x2 == IF x1 > ScreenWidth THEN 0 ELSE x1
        y1 == IF pos.y < 0 THEN ScreenHeight ELSE pos.y
        y2 == IF y1 > ScreenHeight THEN 0 ELSE y1
    IN  Vec(x2, y2)

BulletKeepInBounds(b) ==
    /\ b.pos.x > 0 /\ b.pos.x < ScreenWidth
    /\ b.pos.y > 0 /\ b.pos.y < ScreenHeight

BulletKeepClosed(b) ==
    /\ b.life > 0
    /\ b.pos.x >= 0 /\ b.pos.x <= ScreenWidth
    /\ b.pos.y >= 0 /\ b.pos.y <= ScreenHeight

BulletKeep(b) ==
    /\ b.life > 0
    /\ b.pos.x > 0 /\ b.pos.x < ScreenWidth
    /\ b.pos.y > 0 /\ b.pos.y < ScreenHeight

\* lines 211-219
BulletPhase(bs, dt) ==
    SelectSeq([k \in DOMAIN bs |->
                  [bs[k] EXCEPT !.pos = VAdd(@, VScale(bs[k].velocity, dt, 1000)),
                                !.life = @ - dt]],
              BulletKeep)

\* lines 360-380; rnd is what rand::gen_range returned: the side and the
\* coordinate along it
spawn_enemy(es, rnd, id) ==
    LET pos == CASE rnd.side = 0 -> Vec(rnd.along, -50)
                 [] rnd.side = 1 -> Vec(rnd.along, ScreenHeight + 50)
                 [] rnd.side = 2 -> Vec(-50, rnd.along)
                 [] OTHER        -> Vec(ScreenWidth + 50, rnd.along)
    IN  Append(es, [pos |-> pos, velocity |-> ZERO, health |-> 2, size |-> 25, id |-> id])

\* lines 222-228
SpawnPhaseUngated(es, timer, safe, dt, rnd, id) ==
    IF timer - dt <= 0
    THEN [enemies |-> spawn_enemy(es, rnd, id), timer |-> rnd.timer, spawns |-> 1]
    ELSE [enemies |-> es, timer |-> timer - dt, spawns |-> 0]

SpawnPhaseStrict(es, timer, safe, dt, rnd, id) ==
    IF safe < 0
    THEN IF timer - dt <= 0
         THEN [enemies |-> spawn_enemy(es, rnd, id), timer |-> rnd.timer, spawns |-> 1]
         ELSE [enemies |-> es, timer |-> timer - dt, spawns |-> 0]
    ELSE [enemies |-> es, timer |-> timer, spawns |-> 0]

SpawnPhase(es, timer, safe, dt, rnd, id) ==
    IF safe <= 0
    THEN IF timer - dt <= 0
         THEN [enemies |-> spawn_enemy(es, rnd, id), timer |-> rnd.timer, spawns |-> 1]
         ELSE [enemies |-> es, timer |-> timer - dt, spawns |-> 0]
    ELSE [enemies |-> es, timer |-> timer, spawns |-> 0]

WrapEnemy(pos) ==
    LET x1 == IF pos.x < -50 THEN ScreenWidth + 50 ELSE pos.x
        x2 == IF x1 > ScreenWidth + 50 THEN -50 ELSE x1
        y1 == IF pos.y < -50 THEN ScreenHeight + 50 ELSE pos.y
        y2 == IF y1 > ScreenHeight + 50 THEN -50 ELSE y1
    IN  Vec(x2, y2)

\* lines 231-250 for one enemy
EnemyChase(e, player_pos, dt) ==
    LET to_player == VSub(player_pos, e.pos)
        distance  == length(to_player)
        velocity  == IF distance > 0
                     THEN VScale(Vec(Quot(to_player.x * 1000, distance),
                                     Quot(to_player.y * 1000, distance)), 150, 1000)
                     ELSE e.velocity
    IN  [e EXCEPT !.velocity = velocity,
                  !.pos = WrapEnemy(VAdd(e.pos, VScale(velocity, dt, 1000)))]

EnemyPhase(es, player_pos, dt) ==
    [k \in DOMAIN es |-> EnemyChase(es[k], player_pos, dt)]

\* lines 253-272: the scan state is [enemies, bullets, to_remove, score,
\* explosions]; i and k are the 1-based positions of the enemy and the bullet.
\* hits is a history field: which bullet decremented which enemy, in order
RECURSIVE BulletEnemyScan(_, _, _)
BulletEnemyScan(S, i, k) ==
    IF i > Len(S.enemies) THEN S
    ELSE IF k > Len(S.bullets) THEN BulletEnemyScan(S, i + 1, 1)
    ELSE LET e == S.enemies[i]
             b == S.bullets[k]
         IN  IF length(VSub(b.pos, e.pos)) < e.size + 10
             THEN LET h  == e.health - 1
                      S1 == [S EXCEPT !.enemies[i].health = h, !.bullets[k].life = 0,
                                      !.hits = Append(@, [enemy |-> e.id,
                                                          bullet |-> b.id])]
                      S2 == IF h <= 0
                            THEN [S1 EXCEPT
                                    !.to_remove = Append(@, i - 1),
                                    !.score = @ + 100,
                                    !.explosions = Append(@, [pos |-> e.pos, life |-> 500,
                                                              size |-> e.size * 2,
                                                              of |-> e.id])]
                            ELSE S1
                  IN  BulletEnemyScan(S2, i, k + 1)
             ELSE BulletEnemyScan(S, i, k + 1)

\* Vec::remove(i), i counted from 0
RemoveAt(seq, i) == SubSeq(seq, 1, i) \o SubSeq(seq, i + 2, Len(seq))

\* lines 275-277: enemies_to_remove walked from its end (k = its length) to
\* its start; Vec::remove panics on an index that is out of range
RemoveDeadNone(es, rem, k) == [enemies |-> es, panicked |-> FALSE]

RECURSIVE RemoveDead(_, _, _)
RemoveDead(es, rem, k) ==
    IF k = 0 THEN [enemies |-> es, panicked |-> FALSE]
    ELSE IF rem[k] >= Len(es) THEN [enemies |-> es, panicked |-> TRUE]
    ELSE RemoveDead(RemoveAt(es, rem[k]), rem, k - 1)

PlayerTouches(e, player_pos) == length(VSub(player_pos, e.pos)) < 40 + e.size

\* lines 284-290: the index (from 0) of the enemy the scan stops at, or -1
CollisionIndexLast(es, player_pos) ==
    LET hits == {k \in DOMAIN es : PlayerTouches(es[k], player_pos)}
    IN  IF hits = {} THEN -1
        ELSE (CHOOSE k \in hits : \A m \in hits : m <= k) - 1

CollisionIndex(es, player_pos) ==
    LET hits == {k \in DOMAIN es : PlayerTouches(es[k], player_pos)}
    IN  IF hits = {} THEN -1
        ELSE (CHOOSE k \in hits : \A m \in hits : k <= m) - 1

\* lines 280-303: the state is [enemies, explosions, health, safe]
PlayerEnemyNoGate(S, player_pos) ==
    LET idx == CollisionIndex(S.enemies, player_pos)
    IN  IF idx >= 0
        THEN [enemies    |-> RemoveAt(S.enemies, idx),
              explosions |-> Append(S.explosions,
                                [pos |-> S.enemies[idx + 1].pos, life |-> 500,
                                 size |-> S.enemies[idx + 1].size * 2,
                                 of |-> S.enemies[idx + 1].id]),
              health     |-> S.health - 1,
              safe       |-> 300,
              idx        |-> idx]
        ELSE [S EXCEPT !.idx = -1]

PlayerEnemyEveryHit(S, player_pos) ==
    IF S.safe <= 0
    THEN LET idx == CollisionIndex(S.enemies, player_pos)
         IN  IF idx >= 0
             THEN [enemies    |-> RemoveAt(S.enemies, idx),
                   explosions |-> Append(S.explosions,
                                     [pos |-> S.enemies[idx + 1].pos, life |-> 500,
                                      size |-> S.enemies[idx + 1].size * 2,
                                      of |-> S.enemies[idx + 1].id]),
                   health     |-> S.health - Cardinality({k \in DOMAIN S.enemies :
                                     PlayerTouches(S.enemies[k], player_pos)}),
                   safe       |-> 300,
                   idx        |-> idx]
             ELSE [S EXCEPT !.idx = -1]
    ELSE [S EXCEPT !.idx = -1]

PlayerEnemyPhase(S, player_pos) ==
    IF S.safe <= 0
    THEN LET idx == CollisionIndex(S.enemies, player_pos)
         IN  IF idx >= 0
             THEN [enemies    |-> RemoveAt(S.enemies, idx),
                   explosions |-> Append(S.explosions,
                                     [pos |-> S.enemies[idx + 1].pos, life |-> 500,
                                      size |-> S.enemies[idx + 1].size * 2,
                                      of |-> S.enemies[idx + 1].id]),
                   health     |-> S.health - 1,
                   safe       |-> 300,
                   idx        |-> idx]
             ELSE [S EXCEPT !.idx = -1]
    ELSE [S EXCEPT !.idx = -1]

ExplosionAlive(x) == x.life > 0

\* lines 306-310
ExplosionPhase(xs, dt) ==
    SelectSeq([k \in DOMAIN xs |->
                  [xs[k] EXCEPT !.life = @ - dt * 2, !.size = @ + Quot(dt * 100, 1000)]],
              ExplosionAlive)

(***************************************************************************)
(* game.rs: GameState::update(dt), lines 147-335, as one step. touches and *)
(* mouse are what macroquad reports in this frame, rnd what rand returns   *)
(* if an enemy is spawned.                                                 *)
(***************************************************************************)
NoMouse == [pos |-> ZERO, pressed |-> FALSE, down |-> FALSE, released |-> FALSE]

update(dt, touches, mouse, rnd) ==
    /\ ~panicked
    /\ \E now \in {time + dt},
          intro \in {IntroFade(intro_alpha, game_started, dt)},
          safe1 \in {SafeCountdown(safe_time, dt)},
          inp \in {handle_input([lj |-> left_joystick, rj |-> right_joystick,
                                 lid |-> left_touch_id, rid |-> right_touch_id],
                                touches, mouse)} :
       \E movement \in {get_input(inp.lj)}, aim \in {get_input(inp.rj)} :
       \E p1 \in {Player_update(player, movement, aim, dt)},
          cd1 \in {shoot_cooldown - dt} :
       \E fire \in {Fire(inp.rj.active, cd1)} :
       \E bullets1 \in {IF fire THEN shoot(bullets, p1, spawned.bullets + 1, now)
                        ELSE bullets},
          pushed \in {TrailPush(trail, movement, p1.position, spawned.trail + 1)},
          p2 \in {[p1 EXCEPT !.position = WrapPlayer(@)]},
          sp \in {SpawnPhase(enemies, enemy_spawn_timer, safe1, dt, rnd,
                             spawned.enemies + 1)} :
       \E bullets2 \in {BulletPhase(bullets1, dt)},
          enemies1 \in {EnemyPhase(sp.enemies, p2.position, dt)} :
       \E scan \in {BulletEnemyScan([enemies |-> enemies1, bullets |-> bullets2,
                                     to_remove |-> <<>>, score |-> score,
                                     explosions |-> explosions, hits |-> <<>>],
                                    1, 1)} :
       \E rem \in {RemoveDead(scan.enemies, scan.to_remove, Len(scan.to_remove))} :
       \E pe \in {PlayerEnemyPhase([enemies |-> rem.enemies,
                                    explosions |-> scan.explosions,
                                    health |-> health, safe |-> safe1, idx |-> -1],
                                   p2.position)} :
           /\ time' = now
           /\ intro_alpha' = intro.alpha
           /\ game_started' = intro.started
           /\ left_joystick' = inp.lj
           /\ right_joystick' = inp.rj
           /\ left_touch_id' = inp.lid
           /\ right_touch_id' = inp.rid
           /\ player' = p2
           /\ shoot_cooldown' = IF fire THEN 150 ELSE cd1
           /\ trail' = TrailCap(TrailAge(pushed, dt))
           /\ trail_uncapped' = TrailAge(TrailPush(trail_uncapped, movement,
                                                   p1.position, spawned.trail + 1), dt)
           /\ bullets' = scan.bullets
           /\ enemy_spawn_timer' = sp.timer
           /\ score' = scan.score
           /\ spawned' = [trail   |-> spawned.trail + (Len(pushed) - Len(trail)),
                          bullets |-> spawned.bullets + (IF fire THEN 1 ELSE 0),
                          enemies |-> spawned.enemies + sp.spawns,
                          touches |-> spawned.touches +
                                      Cardinality({k \in DOMAIN touches :
                                                      touches[k].phase = "Started"})]
           /\ game_over' = game_over
           /\ IF rem.panicked
              THEN /\ panicked' = TRUE
                   /\ enemies' = rem.enemies
                   /\ explosions' = scan.explosions
                   /\ health' = health
                   /\ safe_time' = safe1
              ELSE /\ panicked' = FALSE
                   /\ enemies' = pe.enemies
                   /\ explosions' = ExplosionPhase(pe.explosions, dt)
                   /\ health' = pe.health
                   /\ safe_time' = pe.safe
           /\ obs' = [op |-> "update", dt |-> dt, arg |-> ZERO, prev_op |-> obs.op,
                      seen_safe |-> safe1,
                      pre_health |-> health, pre_score |-> score,
                      prev_hit_time |-> obs.hit_time,
                      pass_enemies |-> enemies1, pass_bullets |-> bullets2,
                      to_remove |-> scan.to_remove,
                      pass_explosions |-> SubSeq(scan.explosions, Len(explosions) + 1,
                                                 Len(scan.explosions)),
                      after_pass |-> rem.enemies,
                      hit_index |-> IF rem.panicked THEN -1 ELSE pe.idx,
                      hit_explosions |-> IF rem.panicked THEN <<>>
                                         ELSE SubSeq(pe.explosions,
                                                     Len(scan.explosions) + 1,
                                                     Len(pe.explosions)),
                      hit_time |-> IF ~rem.panicked /\ pe.idx >= 0 THEN now
                                   ELSE obs.hit_time,
                      shots |-> IF fire THEN 1 ELSE 0,
                      spawns |-> sp.spawns,
                      fired |-> bullets1,
                      unwrapped |-> p1.position,
                      scanned |-> scan.enemies,
                      pre_cooldown |-> shoot_cooldown,
                      prev_shot_time |-> obs.shot_time,
                      shot_time |-> IF fire THEN now ELSE obs.shot_time,
                      pre_spawn_timer |-> enemy_spawn_timer,
                      born_enemies |-> SubSeq(sp.enemies, Len(enemies) + 1,
                                              Len(sp.enemies)),
                      pre_started |-> game_started,
                      pre_alpha |-> intro_alpha,
                      touches |-> touches,
                      input_trace |-> InputTrace([lj |-> left_joystick,
                                                  rj |-> right_joystick,
                                                  lid |-> left_touch_id,
                                                  rid |-> right_touch_id], touches),
                      aged |-> TrailAge(pushed, dt),
                      aim |-> aim,
                      pre_rotation |-> player.rotation,
                      faced |-> IF aim # ZERO THEN normalize(aim) ELSE obs.faced,
                      hits |-> scan.hits]

\* whether update(dt) reaches spawn_enemy (lines 222-225)
WillSpawn(dt) == SafeCountdown(safe_time, dt) <= 0 /\ enemy_spawn_timer - dt <= 0

\* what rand::gen_range(1.0, 2.5) may return for the spawn timer
SpawnTimers == {1000, 2499}

\* the case of no spawn draws nothing
NoRnd == [side |-> 0, along |-> 0, timer |-> 1000]

(***************************************************************************)
(* Environments. Every frame is one call of update; a specification fixes  *)
(* which frame times, input events and random draws are explored.          *)
(***************************************************************************)
\* the number of times a finger lands in the session
MaxTouches == 1

\* spawn points: the middle of each side
SpawnRnd ==
    {[side |-> sd, along |-> IF sd \in {0, 1} THEN 640 ELSE 360, timer |-> tm] :
        sd \in 0..3, tm \in SpawnTimers}

Rnd(dt) == IF WillSpawn(dt) THEN SpawnRnd ELSE {NoRnd}

AimTouch(phase) == [id |-> 1, phase |-> phase, pos |-> Vec(960, 500)]

\* the touches a frame may report: the aim finger lands, rests or lifts
AimTouches ==
    IF right_touch_id = None
    THEN {<<>>} \cup (IF spawned.touches < MaxTouches THEN {<<AimTouch("Started")>>} ELSE {})
    ELSE {<<AimTouch("Stationary")>>, <<AimTouch("Ended")>>}

(***************************************************************************)
(* Spec: the player stays at the screen centre and fires along its initial *)
(* rotation. The grace period passes in long frames (a stalled host), play *)
(* after it runs in short frames of varying length.                        *)
(***************************************************************************)
Stalls == {1500, 3000}

Ticks == {20, 200}

\* the session is followed up to this elapsed time
MaxTime == 3500

\* a long frame during the grace period
FrameStall ==
    \E dt \in Stalls :
        /\ safe_time > 0
        /\ time + dt <= MaxTime
        /\ \E touches \in AimTouches, rnd \in Rnd(dt) : update(dt, touches, NoMouse, rnd)

\* a short frame after the grace period
FrameTick ==
    \E dt \in Ticks :
        /\ safe_time <= 0
        /\ time + dt <= MaxTime
        /\ \E touches \in AimTouches, rnd \in Rnd(dt) : update(dt, touches, NoMouse, rnd)

Next == FrameStall \/ FrameTick

Spec == Init /\ [][Next]_vars

(***************************************************************************)
(* SpecQuiet: nobody touches the screen. Frames of 0.1 s (the rate of the  *)
(* spec's end-to-end scenario) mixed with long stalls.                     *)
(***************************************************************************)
QuietDts == {100, 1500, 3000}

MaxQuietTime == 6300

FrameQuiet ==
    \E dt \in QuietDts :
        /\ time + dt <= MaxQuietTime
        /\ \E rnd \in Rnd(dt) : update(dt, <<>>, NoMouse, rnd)

NextQuiet == FrameQuiet

SpecQuiet == Init /\ [][NextQuiet]_vars

(***************************************************************************)
(* SpecTrail: the movement finger lands and is dragged to the rim of the   *)
(* left stick, at 50 frames a second until more than 20 trail segments     *)
(* have been spawned; from then on frames may be long and the finger may   *)
(* lift.                                                                   *)
(***************************************************************************)
SteerTouch(phase, d) == [id |-> 0, phase |-> phase, pos |-> VAdd(Vec(200, 500), d)]

TrailDts == {20, 100}

MaxTrailTime == 700

TrailLand ==
    /\ spawned.touches = 0
    /\ update(20, <<SteerTouch("Started", ZERO)>>, NoMouse, NoRnd)

TrailSteer ==
    /\ left_touch_id # None
    /\ time + 20 <= MaxTrailTime
    /\ update(20, <<SteerTouch("Moved", Vec(Radius, 0))>>, NoMouse, NoRnd)

TrailLag ==
    /\ left_touch_id # None
    /\ spawned.trail > TrailCapLen
    /\ \E dt \in TrailDts, ph \in {"Moved", "Ended"} :
          /\ time + dt <= MaxTrailTime
          /\ ~(dt = 20 /\ ph = "Moved")
          /\ update(dt, <<SteerTouch(ph, Vec(Radius, 0))>>, NoMouse, NoRnd)

TrailCoast ==
    /\ left_touch_id = None
    /\ spawned.touches > 0
    /\ \E dt \in TrailDts :
          /\ time + dt <= MaxTrailTime
          /\ update(dt, <<>>, NoMouse, NoRnd)

NextTrail == TrailLand \/ TrailSteer \/ TrailLag \/ TrailCoast

SpecTrail == Init /\ [][NextTrail]_vars

(***************************************************************************)
(* SpecBullet: the movement finger pushes the ship to the left edge of the *)
(* screen; the aim finger lands at some frame, so that bullets fly the     *)
(* width of the screen.                                                    *)
(***************************************************************************)
BulletDts == {500, 1500}

BlinkDts == {0, 20}

MaxBulletTime == 3600

BulletLand ==
    /\ spawned.touches = 0
    /\ update(20, <<SteerTouch("Started", ZERO)>>, NoMouse, NoRnd)

\* the touches of a frame in which the movement finger is at d from where it
\* landed; the aim finger lands once, then rests or lifts
BulletTouches(d) ==
    IF right_touch_id # None
    THEN {<<SteerTouch("Moved", d), AimTouch(ph)>> : ph \in {"Stationary", "Ended"}}
    ELSE {<<SteerTouch("Moved", d)>>} \cup
         (IF spawned.touches < 2
          THEN {<<SteerTouch("Moved", d), AimTouch("Started")>>} ELSE {})

\* the first frame after landing is long, with the stick pushed to the left
BulletPush ==
    /\ left_touch_id # None
    /\ left_joystick.current = left_joystick.center
    /\ obs.prev_op = "new"
    /\ \E touches \in BulletTouches(Vec(-56, 0)) :
          update(1500, touches, NoMouse, NoRnd)

\* a long frame with the stick back at rest
BulletFrame ==
    /\ left_touch_id # None
    /\ obs.prev_op # "new"
    /\ \E dt \in BulletDts :
          /\ time + dt <= MaxBulletTime
          /\ \E touches \in BulletTouches(ZERO), rnd \in Rnd(dt) :
                update(dt, touches, NoMouse, rnd)

\* a single short or empty frame between long ones
BulletBlink ==
    /\ left_touch_id # None
    /\ obs.prev_op # "new"
    /\ obs.dt \notin BlinkDts
    /\ \E dt \in BlinkDts :
          /\ time + dt <= MaxBulletTime
          /\ \E touches \in BulletTouches(ZERO), rnd \in Rnd(dt) :
                update(dt, touches, NoMouse, rnd)

NextBullet == BulletLand \/ BulletPush \/ BulletFrame \/ BulletBlink

SpecBullet == Init /\ [][NextBullet]_vars

(***************************************************************************)
(* SpecSiege: nobody touches the screen and the host stalls: every frame   *)
(* is long, so that an enemy spawned in a frame may reach the ship in that *)
(* same frame.                                                             *)
(***************************************************************************)
SiegeDts == {1500, 3000}

MaxSiegeTime == 12000

FrameSiege ==
    \E dt \in SiegeDts :
        /\ time + dt <= MaxSiegeTime
        /\ \E rnd \in Rnd(dt) : update(dt, <<>>, NoMouse, rnd)

NextSiege == FrameSiege

SpecSiege == Init /\ [][NextSiege]_vars

(***************************************************************************)
(* SpecIntro: nobody touches the screen; the frame times are binary        *)
(* fractions of a second, which f32 holds exactly, so that the fade can    *)
(* land on 0 exactly as it does in the model.                              *)
(***************************************************************************)
IntroDts == {250, 500, 1000, 2000}

MaxIntroTime == 3500

FrameIntro ==
    \E dt \in IntroDts :
        /\ time + dt <= MaxIntroTime
        /\ \E rnd \in Rnd(dt) : update(dt, <<>>, NoMouse, rnd)

NextIntro == FrameIntro

SpecIntro == Init /\ [][NextIntro]_vars

(***************************************************************************)
(* A session picked up at a moment when the ship is at position pos with   *)
(* velocity vel; everything else as after GameState::new.                  *)
(***************************************************************************)
InitPlayer(pos, vel) ==
    /\ left_joystick = Joystick_new(Radius)
    /\ right_joystick = Joystick_new(Radius)
    /\ left_touch_id = None
    /\ right_touch_id = None
    /\ player = [Player_new(pos) EXCEPT !.velocity = vel]
    /\ trail = <<>>
    /\ bullets = <<>>
    /\ enemies = <<>>
    /\ explosions = <<>>
    /\ shoot_cooldown = 0
    /\ enemy_spawn_timer = 0
    /\ health = 3
    /\ score = 0
    /\ time = 0
    /\ intro_alpha = 1000
    /\ game_started = FALSE
    /\ safe_time = 3000
    /\ game_over = FALSE
    /\ panicked = FALSE
    /\ spawned = [trail |-> 0, bullets |-> 0, enemies |-> 0, touches |-> 0]
    /\ trail_uncapped = <<>>
    /\ obs = ObsNone

(***************************************************************************)
(* SpecWrap: the ship drifts near or on an edge of the screen, in frames   *)
(* of 0.1 s with no input.                                                 *)
(***************************************************************************)
WrapXs == {0, 5, 640, 1275, 1280}

WrapYs == {0, 5, 360, 715, 720}

WrapSpeeds == {-100, 0, 100}

MaxWrapTime == 300

InitWrap ==
    \E x \in WrapXs, y \in WrapYs, vx \in WrapSpeeds, vy \in WrapSpeeds :
        InitPlayer(Vec(x, y), Vec(vx, vy))

FrameWrap ==
    /\ time + 100 <= MaxWrapTime
    /\ update(100, <<>>, NoMouse, NoRnd)

NextWrap == FrameWrap

SpecWrap == InitWrap /\ [][NextWrap]_vars

(***************************************************************************)
(* SpecDamp: Player::update with movement and aim (0,0), on velocities at  *)
(* the bottom of the f32 range. Here a velocity component is a whole       *)
(* number of units of 2^-149, the smallest positive f32, so the f32        *)
(* product with 0.98 is computed exactly as the hardware computes it:      *)
(* 0.98 is the f32 16441672 / 2^24 and the product is rounded to the       *)
(* nearest unit, ties to even. Adding velocity * dt leaves the position    *)
(* (640, 360) as it is.                                                    *)
(***************************************************************************)
\* 0.98 as f32: the mantissa of 0x3F7AE148
DampMant == 16441672

RoundNearestEven(n, d) ==
    LET q == n \div d
        r == n % d
    IN  IF 2 * r > d \/ (2 * r = d /\ q % 2 = 1) THEN q + 1 ELSE q

damp_none(k) == k

\* player.rs line 26 for one component of k units
damp_f32(k) ==
    IF k >= 0 THEN RoundNearestEven(k * DampMant, 2 ^ 24)
    ELSE -RoundNearestEven((-k) * DampMant, 2 ^ 24)

\* Player::update(ZERO, ZERO, dt)
Player_damp(p) ==
    [p EXCEPT !.velocity = Vec(damp_f32(p.velocity.x), damp_f32(p.velocity.y))]

\* the largest component explored, in units
MaxDampUnits == 60

InitDamp ==
    \E kx \in 0..MaxDampUnits, ky \in {-30, 0} :
        InitPlayer(Vec(ScreenWidth \div 2, ScreenHeight \div 2), Vec(kx, ky))

DampStep ==
    /\ player' = Player_damp(player)
    /\ obs' = [ObsNone EXCEPT !.op = "damp", !.arg = player.velocity]
    /\ UNCHANGED <<left_joystick, right_joystick, left_touch_id, right_touch_id,
                   trail, bullets, enemies, explosions, shoot_cooldown,
                   enemy_spawn_timer, health, score, time, intro_alpha,
                   game_started, safe_time, game_over, panicked, spawned,
                   trail_uncapped>>

NextDamp == DampStep

SpecDamp == InitDamp /\ [][NextDamp]_vars

(***************************************************************************)
(* SpecInput: handle_input on its own, fed with what touches() and the     *)
(* mouse may report in a frame. Up to two fingers report an event in a     *)
(* frame; a finger that lands has an id no joystick is bound to. Fingers   *)
(* at rest are left out of the list (their phase, Stationary, does         *)
(* nothing), so the mouse is only looked at when no joystick is bound: a   *)
(* bound finger is still down and keeps touches() non-empty.               *)
(***************************************************************************)
InputIds == {1, 2, 3}

\* two points on the left half, one on the right half
InputPts == {Vec(200, 500), Vec(600, 500), Vec(960, 500)}

InputEvents ==
    {[id |-> i, phase |-> ph, pos |-> pt] :
        i \in InputIds, ph \in {"Started", "Moved"}, pt \in InputPts}
    \cup
    {[id |-> i, phase |-> ph, pos |-> Vec(200, 500)] :
        i \in InputIds, ph \in {"Ended", "Cancelled"}}

\* an event the platform can report in the present state
CanReport(t) == t.phase = "Started" => Some(t.id) \notin {left_touch_id, right_touch_id}

\* one event, or two of different fingers: two landings, or a lift or a move
\* followed by a landing
InputLists ==
    {<<t>> : t \in {e \in InputEvents : CanReport(e)}}
    \cup
    {<<t, u>> : t \in {e \in InputEvents : CanReport(e) /\ e.phase # "Cancelled"},
                u \in {e \in InputEvents : CanReport(e) /\ e.phase = "Started"}}

InputNow ==
    [lj |-> left_joystick, rj |-> right_joystick,
     lid |-> left_touch_id, rid |-> right_touch_id]

InputUnchanged ==
    UNCHANGED <<player, trail, bullets, enemies, explosions, shoot_cooldown,
                enemy_spawn_timer, health, score, time, intro_alpha, game_started,
                safe_time, game_over, panicked, spawned, trail_uncapped>>

InputApply(touches, mouse) ==
    \E inp \in {handle_input(InputNow, touches, mouse)} :
        /\ left_joystick' = inp.lj
        /\ right_joystick' = inp.rj
        /\ left_touch_id' = inp.lid
        /\ right_touch_id' = inp.rid
        /\ obs' = [ObsNone EXCEPT !.op = "input", !.touches = touches,
                                  !.input_trace = InputTrace(InputNow, touches)]
        /\ InputUnchanged

\* a frame in which fingers report
IngestTouches ==
    \E touches \in InputLists :
        /\ \A j, k \in DOMAIN touches : j # k => touches[j].id # touches[k].id
        /\ InputApply(touches, NoMouse)

MouseEvents ==
    {[pos |-> pt, pressed |-> b = 1, down |-> b = 2, released |-> b = 3] :
        pt \in InputPts, b \in 1..3}

\* a frame with no finger down, in which the mouse does something
IngestMouse ==
    /\ left_touch_id = None
    /\ right_touch_id = None
    /\ \E mouse \in MouseEvents : InputApply(<<>>, mouse)

NextInput == IngestTouches \/ IngestMouse

SpecInput == Init /\ [][NextInput]_vars

(***************************************************************************)
(* SpecPointer: handle_input on its own, on a host with a touch screen and *)
(* a mouse, with nothing taken for granted about which of the two reports  *)
(* in a frame: a frame's touch list holds one event of one finger, or it   *)
(* is empty (no finger reports, whether or not one is down) and the mouse  *)
(* is looked at.                                                           *)
(***************************************************************************)
\* a frame in which one finger reports
PointerTouch ==
    \E t \in InputEvents :
        /\ CanReport(t)
        /\ InputApply(<<t>>, NoMouse)

\* a frame with an empty touch list, in which the mouse does something
PointerMouse ==
    \E mouse \in MouseEvents :
        /\ mouse.pressed \/ mouse.down \/ mouse.released
        /\ InputApply(<<>>, mouse)

NextPointer == PointerTouch \/ PointerMouse

SpecPointer == Init /\ [][NextPointer]_vars

(***************************************************************************)
(* SpecAim: the aim finger lands on the right half, is dragged to a few    *)
(* points around where it landed (back to that point included), rests and  *)
(* lifts; it may land a second time. Frames of 0.1 s.                      *)
(***************************************************************************)
\* where the aim finger is dragged to, from where it landed: directions whose
\* unit vector is exact in thousandths
AimDisps == {ZERO, Vec(48, 64), Vec(0, -80), Vec(-24, 32)}

AimDt == 100

MaxAimTime == 500

MaxAimTouches == 2

AimFinger(phase, d) == [id |-> 1, phase |-> phase, pos |-> VAdd(Vec(960, 500), d)]

AimFrame(touches) ==
    /\ time + AimDt <= MaxAimTime
    /\ update(AimDt, touches, NoMouse, NoRnd)

AimLand ==
    /\ right_touch_id = None
    /\ spawned.touches < MaxAimTouches
    /\ AimFrame(<<AimFinger("Started", ZERO)>>)

AimDrag ==
    /\ right_touch_id # None
    /\ \E d \in AimDisps : AimFrame(<<AimFinger("Moved", d)>>)

AimRest ==
    /\ right_touch_id # None
    /\ AimFrame(<<AimFinger("Stationary", ZERO)>>)

AimLift ==
    /\ right_touch_id # None
    /\ AimFrame(<<AimFinger("Ended", ZERO)>>)

AimIdle ==
    /\ right_touch_id = None
    /\ AimFrame(<<>>)

NextAim == AimLand \/ AimDrag \/ AimRest \/ AimLift \/ AimIdle

SpecAim == Init /\ [][NextAim]_vars

(***************************************************************************)
(* SpecEdge: the ship rests at the screen centre; the aim finger lands and *)
(* is dragged straight up or down, so that bullets leave the muzzle 315    *)
(* pixels from the top or bottom edge. Frames of 0.025 s and 0.5 s: at 600 *)
(* pixels a second a bullet covers 15 or 300 pixels in a frame, exactly in *)
(* f32 as well.                                                            *)
(***************************************************************************)
EdgeDisps == {ZERO, Vec(0, -80), Vec(0, 80)}

EdgeDts == {25, 500}

MaxEdgeTime == 1100

EdgeFrame(touches) ==
    \E dt \in EdgeDts :
        /\ time + dt <= MaxEdgeTime
        /\ update(dt, touches, NoMouse, NoRnd)

EdgeLand ==
    /\ right_touch_id = None
    /\ spawned.touches = 0
    /\ EdgeFrame(<<AimFinger("Started", ZERO)>>)

EdgeDrag ==
    /\ right_touch_id # None
    /\ \E d \in EdgeDisps : EdgeFrame(<<AimFinger("Moved", d)>>)

EdgeRest ==
    /\ right_touch_id # None
    /\ EdgeFrame(<<AimFinger("Stationary", ZERO)>>)

NextEdge == EdgeLand \/ EdgeDrag \/ EdgeRest

SpecEdge == Init /\ [][NextEdge]_vars

(***************************************************************************)
(* SpecCross: as Spec, but the host stalls for the first six seconds, so   *)
(* that enemies are spawned in long frames and may jump over the ship;     *)
(* short frames follow, in which the bullets stay on the screen.           *)
(***************************************************************************)
CrossStallTime == 6000

CrossTicks == {100, 200}

MaxCrossTime == 6400

\* a long frame
CrossStall ==
    \E dt \in Stalls :
        /\ time + dt <= CrossStallTime
        /\ \E touches \in AimTouches, rnd \in Rnd(dt) : update(dt, touches, NoMouse, rnd)

\* a short frame, ending after the stalls
CrossTick ==
    \E dt \in CrossTicks :
        /\ time + dt > CrossStallTime
        /\ time + dt <= MaxCrossTime
        /\ \E touches \in AimTouches, rnd \in Rnd(dt) : update(dt, touches, NoMouse, rnd)

NextCross == CrossStall \/ CrossTick

SpecCross == Init /\ [][NextCross]_vars

(***************************************************************************)
(* SpecScore: the grace period passes in two stalled frames, the second of *)
(* which spawns the first enemy; play then runs in frames of 0.1 and 0.2 s *)
(* until the second enemy has been spawned, a second after the first.      *)
(***************************************************************************)
ScoreStall == 1500

ScoreTicks == {100, 200}

MaxScoreTime == 4000

\* a long frame during the grace period
ScoreFrameStall ==
    /\ safe_time > 0
    /\ spawned.enemies = 0
    /\ \E touches \in AimTouches, rnd \in Rnd(ScoreStall) :
          update(ScoreStall, touches, NoMouse, rnd)

\* a short frame after the grace period
ScoreFrameTick ==
    \E dt \in ScoreTicks :
        /\ safe_time <= 0
        /\ time + dt <= MaxScoreTime
        /\ \E touches \in AimTouches, rnd \in Rnd(dt) : update(dt, touches, NoMouse, rnd)

NextScore == ScoreFrameStall \/ ScoreFrameTick

SpecScore == Init /\ [][NextScore]_vars

(***************************************************************************)
(* The Joystick on its own: any sequence of its three calls                *)
(***************************************************************************)
\* touch positions where a drag starts
JoyCenters == {Vec(200, 300), Vec(900, 400)}

\* drags whose length is a whole number: on an axis, or a multiple of (3,4)
JoyDisps ==
    {Vec(sx * a, sy * b) : sx \in {-1, 1}, sy \in {-1, 1},
        <<a, b>> \in {<<0, 0>>, <<8, 0>>, <<0, 12>>, <<80, 0>>, <<0, 84>>, <<200, 0>>,
                     <<12, 16>>, <<48, 64>>, <<64, 48>>, <<60, 80>>, <<96, 128>>,
                     <<160, 120>>}}

gameVars == <<right_joystick, left_touch_id, right_touch_id,
              player, trail, bullets, enemies, explosions,
              shoot_cooldown, enemy_spawn_timer,
              health, score, time, intro_alpha, game_started, safe_time, game_over,
              panicked, spawned, trail_uncapped>>

JoyObs(op, arg) == [ObsNone EXCEPT !.op = op, !.arg = arg, !.prev_op = obs.op]

TouchStart ==
    \E p \in JoyCenters :
        /\ left_joystick' = on_touch_start(left_joystick, p)
        /\ obs' = JoyObs("start", p)
        /\ UNCHANGED gameVars

TouchMove ==
    \E d \in JoyDisps :
        LET pos == VAdd(left_joystick.center, d)
        IN  /\ left_joystick' = on_touch_move(left_joystick, pos)
            /\ obs' = JoyObs("move", pos)
            /\ UNCHANGED gameVars

TouchEnd ==
    /\ left_joystick' = on_touch_end(left_joystick)
    /\ obs' = JoyObs("end", ZERO)
    /\ UNCHANGED gameVars

NextJoy == TouchStart \/ TouchMove \/ TouchEnd

SpecJoy == Init /\ [][NextJoy]_vars

(***************************************************************************)
(* Joystick properties (checked under SpecJoy)                             *)
(***************************************************************************)
Dot(a, b) == a.x * b.x + a.y * b.y

Cross(a, b) == a.x * b.y - a.y * b.x

JoyOffset(j) == VSub(j.current, j.center)

\* C1: in every state reached by start / move / end calls, an inactive
\* joystick has current = center, and |current - center| <= radius.
C1_JoystickInvariant ==
    /\ ~left_joystick.active => left_joystick.current = left_joystick.center
    /\ LenSq(JoyOffset(left_joystick)) <= left_joystick.radius * left_joystick.radius

\* C1 witness: the joystick was released after a drag that had moved it
C1_Witness ==
    /\ obs.op = "end"
    /\ obs.prev_op = "move"
    /\ ~left_joystick.active
    /\ left_joystick.center # ZERO

\* C2: get_input is exactly (0,0) while inactive; while active it is
\* (current - center) / radius and its magnitude is at most 1.
C2_GetInput ==
    LET g == get_input(left_joystick)
        o == JoyOffset(left_joystick)
    IN  /\ ~left_joystick.active => g = ZERO
        /\ left_joystick.active =>
              /\ g.x * left_joystick.radius = o.x * 1000
              /\ g.y * left_joystick.radius = o.y * 1000
              /\ LenSq(g) <= 1000 * 1000

\* C2 witness: an active joystick dragged beyond its radius reports magnitude 1
C2_Witness ==
    /\ left_joystick.active
    /\ obs.op = "move"
    /\ LenSq(VSub(obs.arg, left_joystick.center)) > Radius * Radius
    /\ LenSq(get_input(left_joystick)) = 1000 * 1000

\* C3: after on_touch_start(p) then on_touch_move(p + d): if |d| > radius then
\* |current - center| = radius and current - center has the direction of d;
\* otherwise current = p + d.
C3_ClampedMove ==
    (obs.op = "move" /\ obs.prev_op = "start") =>
        LET d == VSub(obs.arg, left_joystick.center)
            o == JoyOffset(left_joystick)
            r == left_joystick.radius
        IN  IF LenSq(d) > r * r
            THEN /\ LenSq(o) = r * r
                 /\ Cross(o, d) = 0
                 /\ Dot(o, d) > 0
            ELSE left_joystick.current = obs.arg

\* C3 witness: a diagonal drag longer than the radius, right after the start
C3_Witness ==
    /\ obs.op = "move"
    /\ obs.prev_op = "start"
    /\ LET d == VSub(obs.arg, left_joystick.center)
       IN  /\ LenSq(d) > Radius * Radius
           /\ d.x # 0
           /\ d.y # 0
           /\ LenSq(JoyOffset(left_joystick)) = Radius * Radius

(***************************************************************************)
(* Combat properties (checked under Spec). obs holds what the last update  *)
(* saw: the pools entering the bullet-enemy pass, the pool leaving it, the *)
(* explosions each phase pushed.                                           *)
(***************************************************************************)
InRange(b, e) == LenSq(VSub(b.pos, e.pos)) < (e.size + 10) * (e.size + 10)

\* the bullets of the pass that are within range of enemy e
BulletsOn(e) == {k \in DOMAIN obs.pass_bullets : InRange(obs.pass_bullets[k], e)}

IdsOf(seq) == {seq[k].id : k \in DOMAIN seq}

HealthIn(seq, id) == {seq[k].health : k \in {m \in DOMAIN seq : seq[m].id = id}}

\* C4: an enemy entering the pass with health 2 and exactly one bullet within
\* range leaves it with health 1, still in the pool, and that bullet is no
\* longer in the bullet pool.
C4_SingleHit ==
    obs.op = "update" =>
        \A i \in DOMAIN obs.pass_enemies :
            LET e == obs.pass_enemies[i]
            IN  (e.health = 2 /\ Cardinality(BulletsOn(e)) = 1) =>
                    /\ HealthIn(obs.after_pass, e.id) = {1}
                    /\ \A k \in BulletsOn(e) : obs.pass_bullets[k].id \notin IdsOf(bullets)

\* what the code does with the bullet of C4: it stays in the pool with life 0
C4_BulletMarked ==
    obs.op = "update" =>
        \A i \in DOMAIN obs.pass_enemies :
            \A k \in BulletsOn(obs.pass_enemies[i]) :
                \E m \in DOMAIN bullets :
                    bullets[m].id = obs.pass_bullets[k].id /\ bullets[m].life = 0

\* the enemies that enter the pass alive and reach health <= 0 in it
Killed == {i \in DOMAIN obs.pass_enemies :
              LET e == obs.pass_enemies[i]
              IN  e.health > 0 /\ e.health - Cardinality(BulletsOn(e)) <= 0}

ExplosionsOf(seq, e) == {k \in DOMAIN seq : seq[k].of = e.id}

\* C5: every enemy whose health reaches <= 0 in the pass gets exactly one
\* explosion (at its position, size 2 * enemy.size) and adds exactly 100 to
\* the score, whatever the number of bullets within range of it.
C5_DeathOnce ==
    obs.op = "update" =>
        /\ score - obs.pre_score = 100 * Cardinality(Killed)
        /\ \A i \in Killed :
              LET e == obs.pass_enemies[i]
              IN  /\ Cardinality(ExplosionsOf(obs.pass_explosions, e)) = 1
                  /\ \A k \in ExplosionsOf(obs.pass_explosions, e) :
                        /\ obs.pass_explosions[k].pos = e.pos
                        /\ obs.pass_explosions[k].size = 2 * e.size

\* an enemy was killed by a single health-exhausting hit
C5_KilledOnce ==
    /\ obs.op = "update"
    /\ Killed # {}
    /\ score - obs.pre_score = 100 * Cardinality(Killed)

Touching(e) == LenSq(VSub(player.position, e.pos)) < (40 + e.size) * (40 + e.size)

\* the enemies the player-enemy phase finds within reach of the player
Overlapping == {k \in DOMAIN obs.after_pass : Touching(obs.after_pass[k])}

FirstOverlapping == CHOOSE k \in Overlapping : \A m \in Overlapping : k <= m

\* C6: when the player-enemy phase runs with safe_timer <= 0 and some enemy is
\* within 40 + size of the player, exactly the first such enemy in pool order
\* is removed, health drops by 1, one explosion is created at that enemy's
\* position and safe_timer becomes 0.3 s; the other enemies stay.
C6_OneCollision ==
    (obs.op = "update" /\ ~panicked /\ obs.seen_safe <= 0 /\ Overlapping # {}) =>
        LET e == obs.after_pass[FirstOverlapping]
        IN  /\ enemies = RemoveAt(obs.after_pass, FirstOverlapping - 1)
            /\ health = obs.pre_health - 1
            /\ Len(obs.hit_explosions) = 1
            /\ obs.hit_explosions[1].pos = e.pos
            /\ obs.hit_explosions[1].of = e.id
            /\ safe_time = 300

\* C6 witness: two enemies overlapped the player and one of them was removed
C6_Witness ==
    /\ obs.op = "update"
    /\ ~panicked
    /\ obs.seen_safe <= 0
    /\ Cardinality(Overlapping) >= 2
    /\ Len(enemies) = Len(obs.after_pass) - 1
    /\ health = obs.pre_health - 1

\* C7: health changes only in an update whose collision phase sees
\* safe_timer <= 0, and then by exactly -1; it is 3 while less than 3.0 s have
\* elapsed; two successive decrements are at least 0.3 s apart.
C7_SafeWindow ==
    obs.op = "update" =>
        /\ time < 3000 => health = 3
        /\ health # obs.pre_health =>
              /\ obs.seen_safe <= 0
              /\ health = obs.pre_health - 1
              /\ obs.hit_time = time
              /\ obs.prev_hit_time >= 0 => time - obs.prev_hit_time >= 300

\* C7 witness: a second decrement, as early as the safe window allows
C7_Witness ==
    /\ obs.op = "update"
    /\ health = obs.pre_health - 1
    /\ obs.prev_hit_time >= 0
    /\ time - obs.prev_hit_time <= 300

MostRecent(tr) ==
    \A k \in DOMAIN tr : tr[k].id = spawned.trail - Len(tr) + k

\* C8 as stated: once more than 20 trail segments have been spawned, the trail
\* holds exactly 20 segments after every update, the 20 most recently spawned
\* in insertion order.
C8_TrailExactly20 ==
    (obs.op = "update" /\ spawned.trail > 20) =>
        /\ Len(trail) = 20
        /\ MostRecent(trail)

\* C8 amended: after every update the trail holds at most 20 segments; they are
\* the most recently spawned segments whose life is still above 0 (all of them,
\* or the last 20 when more are alive), in insertion order.
C8_TrailCapped ==
    obs.op = "update" =>
        /\ Len(trail) <= 20
        /\ Len(trail) = IF Len(trail_uncapped) > 20 THEN 20 ELSE Len(trail_uncapped)
        /\ MostRecent(trail)
        /\ \A k \in DOMAIN trail : trail[k].life > 0
        /\ \A k \in DOMAIN trail :
              trail[k] = trail_uncapped[Len(trail_uncapped) - Len(trail) + k]

\* C8 witness: more than 20 segments are alive and the oldest have been dropped
C8_Witness ==
    /\ obs.op = "update"
    /\ spawned.trail > 20
    /\ Len(trail_uncapped) > 20
    /\ Len(trail) = 20
    /\ trail[1].id = spawned.trail - 19

\* a bullet of the pool that entered the frame's bullet phase, as that phase
\* moved it
Moved(b) == VAdd(b.pos, VScale(b.velocity, obs.dt, 1000))

OnScreen(pos) ==
    /\ pos.x > 0 /\ pos.x < ScreenWidth
    /\ pos.y > 0 /\ pos.y < ScreenHeight

\* C9: a bullet spawned at elapsed time t0 is absent from the pool at the end of
\* every update whose elapsed time is t0 + 2.0 s or more.
C9_BulletLifetime ==
    \A k \in DOMAIN bullets : time < bullets[k].born + 2000

\* C9 witness: a bullet still on the screen 2.0 s after its spawn has left the
\* pool
C9_Witness ==
    /\ obs.op = "update"
    /\ \E k \in DOMAIN obs.fired :
          /\ time >= obs.fired[k].born + 2000
          /\ OnScreen(Moved(obs.fired[k]))
          /\ obs.fired[k].id \notin IdsOf(bullets)

\* C11: at the end of every update in which player health is <= 0, game_over
\* is true.
C11_GameOver ==
    (obs.op = "update" /\ health <= 0) => game_over

\* C12: intro_alpha starts at 1.0, drops by 0.5 * dt per update and stays in
\* [0, 1]; at the end of any update in which it has reached 0 game_started is
\* true, also when the decay lands exactly on 0; game_started, once true, is
\* never false again.
C12_IntroLatch ==
    /\ [](/\ intro_alpha >= 0 /\ intro_alpha <= 1000
          /\ (obs.op = "new" => intro_alpha = 1000)
          /\ (obs.op = "update" /\ obs.pre_alpha > 0 /\ intro_alpha > 0) =>
                 intro_alpha = obs.pre_alpha - obs.dt \div 2
          /\ (obs.op = "update" /\ intro_alpha = 0) => game_started)
    /\ [][game_started => game_started']_vars

\* one coordinate wrapped as the claim says: below 0 to the far edge, above
\* the far edge to 0, otherwise as it is
Wrapped(c, far) == IF c < 0 THEN far ELSE IF c > far THEN 0 ELSE c

\* C13: after every update the player position lies in [0, width] x
\* [0, height]; a coordinate that left the screen below 0 is at the far edge and
\* one that left it above the far edge is at 0; wrapping the wrapped position
\* (also one on a boundary) once more changes nothing.
C13_PlayerWrap ==
    obs.op = "update" =>
        /\ player.position.x >= 0 /\ player.position.x <= 1280
        /\ player.position.y >= 0 /\ player.position.y <= 720
        /\ player.position.x = Wrapped(obs.unwrapped.x, 1280)
        /\ player.position.y = Wrapped(obs.unwrapped.y, 720)
        /\ WrapPlayer(player.position) = player.position

\* C13 witness: the ship left the screen on the left and is on the right edge
C13_Witness ==
    /\ obs.op = "update"
    /\ obs.unwrapped.x < 0
    /\ player.position.x = 1280

\* a component after the call is 0.98 times the one before, as nearly as a
\* whole number of units can be (0.98 taken as 16441672 / 2^24)
TimesDamp(c0, c1) ==
    /\ 2 * Abs(c1 * 16777216 - c0 * 16441672) <= 16777216
    /\ Abs(c1) <= Abs(c0)

\* C14 as stated: with movement (0,0) the velocity magnitude after each call is
\* 0.98 times the one before, strictly smaller whenever the velocity was not
\* zero, and a zero velocity stays zero.
C14_Damping ==
    obs.op = "damp" =>
        /\ TimesDamp(obs.arg.x, player.velocity.x)
        /\ TimesDamp(obs.arg.y, player.velocity.y)
        /\ obs.arg # ZERO => LenSq(player.velocity) < LenSq(obs.arg)
        /\ obs.arg = ZERO => player.velocity = ZERO

\* C14 amended: each component becomes 0.98 times its value rounded to the
\* nearest f32, so the magnitude never grows; it is strictly smaller whenever
\* some component was above 25 units of 2^-149 in magnitude; a velocity with
\* both components at or below that stays as it is; zero stays zero.
C14_DampingRounded ==
    obs.op = "damp" =>
        /\ TimesDamp(obs.arg.x, player.velocity.x)
        /\ TimesDamp(obs.arg.y, player.velocity.y)
        /\ LenSq(player.velocity) <= LenSq(obs.arg)
        /\ (Abs(obs.arg.x) > 25 \/ Abs(obs.arg.y) > 25) =>
               LenSq(player.velocity) < LenSq(obs.arg)
        /\ (Abs(obs.arg.x) <= 25 /\ Abs(obs.arg.y) <= 25) =>
               player.velocity = obs.arg
        /\ obs.arg = ZERO => player.velocity = ZERO

\* C14 witness: a velocity above the floor has shrunk
C14_Witness ==
    /\ obs.op = "damp"
    /\ obs.arg.x > 25
    /\ obs.arg.y # 0
    /\ LenSq(player.velocity) < LenSq(obs.arg)
    /\ player.velocity # ZERO

\* the rounds of the touch loop of the last call: k is a round, Before(k) and
\* After(k) the joysticks and bindings around it
Rounds == DOMAIN obs.touches

Before(k) == obs.input_trace[k]

After(k) == obs.input_trace[k + 1]

Unbound(t, s) == Some(t.id) # s.lid /\ Some(t.id) # s.rid

\* C15: a Moved, Ended or Cancelled event whose id matches neither binding
\* changes neither joystick and neither binding, and nothing fails.
C15_UnknownTouch ==
    /\ ~panicked
    /\ \A k \in Rounds :
          (/\ obs.touches[k].phase \in {"Moved", "Ended", "Cancelled"}
           /\ Unbound(obs.touches[k], Before(k))) =>
              After(k) = Before(k)

\* C15 witness: with the movement joystick bound and deflected, another finger
\* moved and nothing changed
C15_Witness ==
    /\ obs.op = "input"
    /\ left_touch_id # None
    /\ left_joystick.current # left_joystick.center
    /\ \E k \in Rounds :
          /\ obs.touches[k].phase = "Moved"
          /\ Unbound(obs.touches[k], Before(k))
          /\ After(k) = Before(k)

\* where a joystick centred at center is driven by a touch at pos on the same
\* horizontal line: to the touch, or to the rim on the side of the touch
Driven(center, pos) ==
    LET d == pos.x - center.x
    IN  Vec(center.x + (IF d > 80 THEN 80 ELSE IF d < -80 THEN -80 ELSE d), pos.y)

Landed(pos) == [center |-> pos, current |-> pos, active |-> TRUE, radius |-> 80]

\* what C16 says of one round of the touch loop for one joystick: stick and id
\* are the joystick and its binding before (0) and after (1) the round, t is
\* the event and mine tells whether t is on this joystick's half of the screen
StableBinding(t, mine, stick0, id0, stick1, id1) ==
    /\ (t.phase = "Started" /\ mine /\ id0 = None) =>
           id1 = Some(t.id) /\ stick1 = Landed(t.pos)
    /\ (t.phase = "Started" /\ ~(mine /\ id0 = None)) =>
           id1 = id0 /\ stick1 = stick0
    /\ (t.phase = "Moved" /\ id0 = Some(t.id)) =>
           /\ id1 = id0
           /\ stick1 = [stick0 EXCEPT !.current = Driven(stick0.center, t.pos)]
    /\ (t.phase \in {"Ended", "Cancelled"} /\ id0 = Some(t.id)) =>
           id1 = None /\ ~stick1.active
    /\ (id0 # None /\ ~(t.phase \in {"Ended", "Cancelled"} /\ id0 = Some(t.id))) =>
           /\ id1 = id0
           /\ stick1.active = stick0.active
           /\ stick1.center = stick0.center

\* C16: the first Started touch on the left half binds the movement joystick,
\* the first one on the right half the aim joystick; while a joystick is bound
\* to a touch id no other Started touch changes the binding or the centre,
\* Moved events of that id drive the joystick wherever they are, and only an
\* Ended or Cancelled event of that id releases the binding and deactivates
\* the joystick.
C16_StableBinding ==
    obs.op \in {"input", "update"} =>
        /\ \A k \in Rounds :
              /\ StableBinding(obs.touches[k], obs.touches[k].pos.x < 640,
                               Before(k).lj, Before(k).lid, After(k).lj, After(k).lid)
              /\ StableBinding(obs.touches[k], obs.touches[k].pos.x >= 640,
                               Before(k).rj, Before(k).rid, After(k).rj, After(k).rid)
        /\ Before(1).lid # None =>
              /\ left_touch_id = After(Len(obs.touches)).lid
              /\ left_joystick = After(Len(obs.touches)).lj
        /\ Before(1).rid # None =>
              /\ right_touch_id = After(Len(obs.touches)).rid
              /\ right_joystick = After(Len(obs.touches)).rj

\* C16 witness: with the movement joystick bound, a second finger landed
\* elsewhere on the left half and the bound finger then drove the joystick from
\* the right half of the screen
C16_Witness ==
    /\ obs.op = "input"
    /\ left_touch_id # None
    /\ \E k \in Rounds :
          /\ obs.touches[k].phase = "Moved"
          /\ Some(obs.touches[k].id) = Before(k).lid
          /\ obs.touches[k].pos.x >= 640
          /\ After(k).lj.current # Before(k).lj.current
    /\ \E k \in Rounds :
          /\ obs.touches[k].phase = "Started"
          /\ obs.touches[k].pos.x < 640
          /\ obs.touches[k].pos # Before(k).lj.center
          /\ Before(k).lid # None
          /\ After(k) = Before(k)

\* C17: player health never increases and drops by at most 1 in an update, so
\* once it is <= 0 it stays <= 0; game_over, once true, is never false again.
C17_Absorbing ==
    [][/\ health' <= health
       /\ health' >= health - 1
       /\ health <= 0 => health' <= 0
       /\ game_over => game_over']_vars

\* C17 witness: an update that started with health <= 0 and took one more
C17_Witness ==
    /\ obs.op = "update"
    /\ obs.pre_health <= 0
    /\ health = obs.pre_health - 1

Alive(e) == e.health > 0

\* C18: the removal after the bullet-enemy scan removes exactly the enemies
\* whose health is <= 0, none whose health is > 0, and never removes at an
\* index outside the pool.
C18_DeadRemoval ==
    obs.op = "update" =>
        /\ ~panicked
        /\ obs.after_pass = SelectSeq(obs.scanned, Alive)

\* C19: an update spawns a bullet only if the aim joystick is active and
\* shoot_cooldown less dt is <= 0; it spawns at most one; after a spawn the
\* cooldown is 0.15 s, so two successive spawns are at least 0.15 s apart; an
\* inactive aim joystick never spawns a bullet.
C19_Firing ==
    obs.op = "update" =>
        /\ obs.shots \in {0, 1}
        /\ Cardinality({k \in DOMAIN obs.fired : obs.fired[k].born = time}) = obs.shots
        /\ obs.shots = 1 =>
              /\ right_joystick.active
              /\ obs.pre_cooldown - obs.dt <= 0
              /\ shoot_cooldown = 150
              /\ obs.prev_shot_time >= 0 => time - obs.prev_shot_time >= 150
        /\ obs.shots = 0 =>
              /\ ~(right_joystick.active /\ obs.pre_cooldown - obs.dt <= 0)
              /\ shoot_cooldown = obs.pre_cooldown - obs.dt
        /\ ~right_joystick.active => obs.shots = 0

\* C19 witness: a second bullet, at the first frame the cooldown allows
C19_Witness ==
    /\ obs.op = "update"
    /\ obs.shots = 1
    /\ obs.prev_shot_time >= 0
    /\ time - obs.prev_shot_time < 200
    /\ obs.dt = 20

\* C20: an update whose safe_timer is > 0 after the countdown spawns no enemy
\* and leaves enemy_spawn_timer as it was; the enemy pool is empty during the
\* whole initial safe period; an update spawns at most one enemy, with health
\* 2, size 25 and zero velocity, and then sets the spawn timer to a value in
\* [1.0, 2.5).
C20_SpawnGate ==
    obs.op = "update" =>
        /\ obs.seen_safe > 0 =>
              /\ obs.born_enemies = <<>>
              /\ enemy_spawn_timer = obs.pre_spawn_timer
        /\ time < 3000 => enemies = <<>> /\ spawned.enemies = 0
        /\ Len(obs.born_enemies) <= 1
        /\ \A k \in DOMAIN obs.born_enemies :
              /\ obs.born_enemies[k].health = 2
              /\ obs.born_enemies[k].size = 25
              /\ obs.born_enemies[k].velocity = ZERO
              /\ enemy_spawn_timer >= 1000
              /\ enemy_spawn_timer < 2500

\* C20 witness: in the safe window after a hit the spawn timer, which would
\* have run out, is left as it was and nothing is spawned
C20_Witness ==
    /\ obs.op = "update"
    /\ time > 3000
    /\ obs.seen_safe > 0
    /\ obs.pre_spawn_timer - obs.dt <= 0
    /\ obs.born_enemies = <<>>
    /\ enemy_spawn_timer = obs.pre_spawn_timer

(***************************************************************************)
(* Trail pool (checked under SpecTrail). obs.aged is the trail as the life *)
(* filter of this update left it, before the cap.                          *)
(***************************************************************************)
\* the segments the cap of this update dropped
Dropped == SubSeq(obs.aged, 1, Len(obs.aged) - Len(trail))

\* C21: at the end of every update the trail holds at most 20 segments, every
\* held segment has life > 0, the segments are in spawn order (oldest first),
\* and when the cap is exceeded the segments dropped are exactly the oldest.
C21_TrailInvariant ==
    obs.op = "update" =>
        /\ Len(trail) <= 20
        /\ \A k \in DOMAIN trail : trail[k].life > 0
        /\ \A k \in DOMAIN trail : \A m \in DOMAIN trail : k < m => trail[k].id < trail[m].id
        /\ Len(trail) <= Len(obs.aged)
        /\ obs.aged = Dropped \o trail
        /\ Len(Dropped) = IF Len(obs.aged) > 20 THEN Len(obs.aged) - 20 ELSE 0
        /\ \A k \in DOMAIN Dropped : \A m \in DOMAIN trail : Dropped[k].id < trail[m].id

\* C21 witness: 21 segments survived the life filter and the cap dropped the
\* oldest of them
C21_Witness ==
    /\ obs.op = "update"
    /\ Len(obs.aged) = 21
    /\ Len(Dropped) = 1
    /\ Dropped[1].id = trail[1].id - 1
    /\ Len(trail) = 20

(***************************************************************************)
(* Facing (checked under SpecAim). obs.aim is the aim vector of the last   *)
(* update, obs.pre_rotation the rotation it started from, obs.faced the    *)
(* direction of the last non-zero aim (the initial rotation before any).   *)
(***************************************************************************)
\* rotation is the angle atan2(aim.y, aim.x): the unit vector along aim
FacesAlong(rotation, aim) ==
    /\ Cross(rotation, aim) = 0
    /\ Dot(rotation, aim) > 0
    /\ LenSq(rotation) = 1000 * 1000

\* C22: an update whose aim is (0,0) leaves the rotation unchanged, so while
\* the aim joystick is inactive or undeflected the rotation is the one set by
\* the last non-zero aim; an update whose aim is non-zero sets the rotation to
\* atan2(aim.y, aim.x).
C22_FacingPersists ==
    obs.op = "update" =>
        /\ (~right_joystick.active \/ right_joystick.current = right_joystick.center)
              => obs.aim = ZERO
        /\ obs.aim = ZERO => player.rotation = obs.pre_rotation
        /\ obs.aim # ZERO => FacesAlong(player.rotation, obs.aim)
        /\ player.rotation = obs.faced

\* C22 witness: the finger has lifted after aiming up and to the left, and an
\* update with no aim has kept that facing
C22_Witness ==
    /\ obs.op = "update"
    /\ obs.prev_op = "update"
    /\ right_touch_id = None
    /\ ~right_joystick.active
    /\ obs.aim = ZERO
    /\ obs.touches = <<>>
    /\ obs.pre_rotation = Vec(-600, 800)
    /\ player.rotation = Vec(-600, 800)

(***************************************************************************)
(* Bullet pruning (checked under SpecEdge). obs.fired is the bullet pool   *)
(* entering the bullet phase, obs.pass_bullets the pool leaving it.        *)
(***************************************************************************)
InsideClosed(pos) ==
    /\ pos.x >= 0 /\ pos.x <= ScreenWidth
    /\ pos.y >= 0 /\ pos.y <= ScreenHeight

OnEdge(pos) == InsideClosed(pos) /\ ~OnScreen(pos)

\* bullet b of the entering pool leaves the bullet phase, moved and not wrapped
KeptMoved(b) ==
    \E m \in DOMAIN obs.pass_bullets :
        /\ obs.pass_bullets[m].id = b.id
        /\ obs.pass_bullets[m].pos = Moved(b)
        /\ obs.pass_bullets[m].life = b.life - obs.dt

DamagedBy(id) == {obs.hits[k].enemy : k \in {m \in DOMAIN obs.hits : obs.hits[m].bullet = id}}

\* the bullets that entered the update with their life zeroed by an earlier hit
Spent == {obs.fired[k].id : k \in {m \in DOMAIN obs.fired : obs.fired[m].life = 0}}

\* C24: a bullet damages at most one enemy: no bullet decrements the health of
\* two enemies in one pass, and a bullet whose life was zeroed by a hit
\* decrements no enemy in a later update.
C24_OneEnemyPerBullet ==
    obs.op = "update" =>
        \A k \in DOMAIN obs.hits :
            /\ Cardinality(DamagedBy(obs.hits[k].bullet)) <= 1
            /\ obs.hits[k].bullet \notin Spent

(***************************************************************************)
(* Enemy pool (checked under SpecCross). An update that panics does not    *)
(* end: the process aborts inside it.                                      *)
(***************************************************************************)
\* C25: at the end of every update every enemy in the pool has health 1 or 2;
\* no enemy with health <= 0 survives an update.
C25_EnemyHealth ==
    (obs.op = "update" /\ ~panicked) =>
        \A k \in DOMAIN enemies : enemies[k].health \in {1, 2}

\* C25 witness: the scan of this update brought an enemy to health <= 0, that
\* enemy has left the pool, and an enemy hit once stays with health 1
C25_Witness ==
    /\ obs.op = "update"
    /\ ~panicked
    /\ \E i \in DOMAIN obs.scanned :
          /\ obs.scanned[i].health <= 0
          /\ obs.scanned[i].id \notin IdsOf(enemies)
    /\ \E k \in DOMAIN enemies : enemies[k].health = 1

(***************************************************************************)
(* Score (checked under SpecScore).                                        *)
(***************************************************************************)
\* the enemies the bullet-enemy phase of the last update took out of the pool
RemovedByBullets == IdsOf(obs.pass_enemies) \ IdsOf(obs.after_pass)

====
